---- MODULE Spec2Model ----
(***************************************************************************)
(* Model of the annotation session kept by src/backend/backend.py: the     *)
(* module-level globals current_image, display_image, masks, points and    *)
(* the image loaded in the segmentation predictor, and the three handlers  *)
(* that mutate them (/upload, /add_point, /undo).                          *)
(*                                                                         *)
(* /upload suspends once, at `await file.read()`, after it has cleared     *)
(* masks and points; it is modelled as two steps.  /add_point and /undo    *)
(* contain no await and run as one step each.                              *)
(*                                                                         *)
(* Images are W x H grids of <<b, g, r>> pixels with 8-bit channels.       *)
(* A value that may be None in the code is a sequence of length 0 (None)   *)
(* or 1 (the value).                                                       *)
(***************************************************************************)
EXTENDS Integers, Sequences, FiniteSets, TLC

\* ---------------------------------------------------------------- bounds
W == 2
H == 2
MaxPoints == 2
MaxInflight == 1
MaxCand == 2
MaxSteps == 6

\* ------------------------------------------------------------- constants
AlphaNum == 1
AlphaDen == 2
MarkerSize == 5
MaskScale == 255
ChannelMax == 255

None == << >>
Some(x) == << x >>
Val(o) == o[1]

Pixels == (1..W) \X (1..H)
Channels == 1..3

HighlightColor == << 255, 0, 0 >>
MarkerColor == << 255, 0, 0 >>

\* ------------------------------------------------------ inputs (bounded)
Photo == [p \in Pixels |-> << (40 * p[1]) % 256, (90 * p[2] + 1) % 256, 255 >>]

\* uploaded files: the bytes of an image, and bytes that are no image
Files == {"photo", "bad"}

\* cv2.imdecode: the decoded image, or None when the bytes are not an image
imdecode(f) == IF f = "photo" THEN Some(Photo) ELSE None

MaskLeft == [p \in Pixels |-> IF p[1] = 1 THEN 1 ELSE 0]
MaskTop == [p \in Pixels |-> IF p[2] = 1 THEN 1 ELSE 0]
MaskSet == {MaskLeft, MaskTop}

PointSet == {<< 1, 1 >>, << 2, 1 >>}

\* What predictor.predict can do: raise, or return a list of candidates
\* (possibly empty).  Each candidate is a tuple whose element 0 is the mask.
\* point.label and multi_object are only passed on to predict, so they are
\* part of this choice.
IsInjective(c) == \A i, j \in DOMAIN c : c[i] = c[j] => i = j
CandidateLists ==
  {c \in UNION {[1..n -> MaskSet] : n \in 0..MaxCand} : IsInjective(c)}
PredictOutcomes ==
  {[throws |-> TRUE, o_masks |-> << >>]}
    \cup {[throws |-> FALSE, o_masks |-> c] : c \in CandidateLists}

\* ------------------------------------------------------- pure functions
\* encode_image: PNG + base64, lossless for 8-bit arrays
encode_image(arr) == [b64png |-> arr]

RoundHalfEven(n, d) ==
  LET q == n \div d
      r == n % d
  IN  IF 2 * r < d THEN q
      ELSE IF 2 * r > d THEN q + 1
      ELSE IF q % 2 = 0 THEN q ELSE q + 1

Saturate(v) == IF v < 0 THEN 0 ELSE IF v > ChannelMax THEN ChannelMax ELSE v

\* cv2.addWeighted(overlay, alpha, image, 1 - alpha, 0) on one channel
addWeightedNoComplement(o, v) ==
  Saturate(RoundHalfEven(AlphaNum * o + AlphaDen * v, AlphaDen))
addWeighted(o, v) ==
  Saturate(RoundHalfEven(AlphaNum * o + (AlphaDen - AlphaNum) * v, AlphaDen))

MaskAny(mask) == \E p \in Pixels : mask[p] # 0

\* overlay[mask > 0] = [255, 0, 0]
PaintedMaskValue(mask, p) == << mask[p], mask[p], mask[p] >>
Painted(mask, p) == HighlightColor

\* overlay = image.copy(): the caller's buffer after the call
InputAfterOverlay(image, mask) == image

overlay_mask(image, mask) ==
  LET overlay == IF MaskAny(mask)
                 THEN [p \in Pixels |->
                         IF mask[p] > 0 THEN Painted(mask, p) ELSE image[p]]
                 ELSE image
  IN  [p \in Pixels |-> [c \in Channels |-> addWeighted(overlay[p][c], image[p][c])]]

Abs(n) == IF n < 0 THEN 0 - n ELSE n

\* Pixels painted by cv2.drawMarker(markerType=1 (tilted cross), markerSize=5):
\* the two diagonals through the point, clipped to the image.
Footprint(pt) ==
  {p \in Pixels : /\ Abs(p[1] - pt[1]) = Abs(p[2] - pt[2])
                  /\ Abs(p[1] - pt[1]) <= MarkerSize \div 2}

drawMarker(image, pt) ==
  [p \in Pixels |-> IF p \in Footprint(pt) THEN MarkerColor ELSE image[p]]

RECURSIVE DrawAllPoints(_, _)
DrawAllPoints(image, pts) ==
  IF pts = << >> THEN image
  ELSE DrawAllPoints(drawMarker(image, Head(pts)), Tail(pts))

RECURSIVE RedrawAllMasks(_, _)
RedrawAllMasks(image, ms) ==
  IF ms = << >> THEN image
  ELSE RedrawAllMasks(overlay_mask(image, Head(ms)), Tail(ms))

\* o_masks[0][0] * 255
ScaledMask(mask) == [p \in Pixels |-> (mask[p] * MaskScale) % 256]

Front(s) == SubSeq(s, 1, Len(s) - 1)


\* ------------------------------------------------------------------ state
VARIABLES
  current_image,    \* global current_image (None or image)
  display_image,    \* global display_image (None or image)
  masks,            \* global masks
  points,           \* global points, each (x, y)
  predictor_image,  \* image given to predictor.set_image (None or image)
  reading,          \* /upload requests suspended at `await file.read()`
  last,             \* history: the handler that finished last and its response
  run,              \* history: add_point/undo calls since the last upload
  serial,           \* history: no request has run while an upload was suspended
  made,             \* history: per entry of points, the mask its add_point got
  arg,              \* overlay_mask alone: its inputs (None in the service)
  out,              \* overlay_mask alone: its results (None until applied)
  steps             \* handler steps taken so far (bounds the exploration)

state == << current_image, display_image, masks, points, predictor_image >>
vars == << current_image, display_image, masks, points, predictor_image,
           reading, last, run, serial, made, arg, out, steps >>

Snapshot ==
  [current_image |-> current_image, display_image |-> display_image,
   masks |-> masks, points |-> points, predictor_image |-> predictor_image]

NoRun == [valid |-> FALSE, adds |-> 0, undos |-> 0, base |-> None,
          allmask |-> FALSE, nomask |-> FALSE]

NoCall == [op |-> "none", outcome |-> "none", file |-> "none", status |-> 0,
           verdict |-> None,
           image |-> None, mask |-> None,
           backend |-> [throws |-> FALSE, o_masks |-> << >>],
           alone |-> TRUE, pre |-> Snapshot, undone |-> None]

\* every suspended upload has now had another request run during its await
Interleaved(rs) == [i \in 1..Len(rs) |-> [rs[i] EXCEPT !.alone = FALSE]]

RemoveAt(s, i) == SubSeq(s, 1, i - 1) \o SubSeq(s, i + 1, Len(s))

InitSession ==
  /\ current_image = None
  /\ display_image = None
  /\ masks = << >>
  /\ points = << >>
  /\ predictor_image = None
  /\ reading = << >>
  /\ last = [NoCall EXCEPT !.pre = [current_image |-> None, display_image |-> None,
                                     masks |-> << >>, points |-> << >>,
                                     predictor_image |-> None]]
  /\ run = NoRun
  /\ serial = TRUE
  /\ made = << >>
  /\ steps = 0

Init == InitSession /\ arg = None /\ out = None

Tick == steps < MaxSteps /\ steps' = steps + 1 /\ UNCHANGED << arg, out >>

\* ----------------------------------------------------------------- /upload
\* masks = []
KeptMasks == masks
ClearedMasks == << >>

\* points = []
KeptPoints == points
ClearedPoints == << >>

\* lines 108-113: clear the history, then suspend at `await file.read()`
UploadStart(f) ==
  /\ Tick
  /\ Len(reading) < MaxInflight
  /\ masks' = ClearedMasks
  /\ points' = ClearedPoints
  /\ made' = << >>
  /\ reading' = Append(Interleaved(reading),
                       [file |-> f, pre |-> Snapshot, alone |-> TRUE])
  /\ run' = NoRun
  /\ serial' = (serial /\ reading = << >>)
  /\ last' = [NoCall EXCEPT !.op = "upload", !.outcome = "suspended",
                            !.file = f, !.alone = (reading = << >>),
                            !.pre = Snapshot]
  /\ UNCHANGED << current_image, display_image, predictor_image >>

\* lines 114-120: decode, install the image, set_image, respond
UploadFinish(i) ==
  /\ Tick
  /\ i \in 1..Len(reading)
  /\ LET u == reading[i]
         img == imdecode(u.file)
         quiet == u.alone /\ Len(reading) = 1
     IN  /\ reading' = Interleaved(RemoveAt(reading, i))
         /\ UNCHANGED made
         /\ IF img = None
            THEN \* img.copy() on None raises; nothing is installed
                 /\ last' = [NoCall EXCEPT !.op = "upload", !.outcome = "uncaught",
                                           !.file = u.file, !.alone = u.alone,
                                           !.pre = u.pre]
                 /\ run' = NoRun
                 /\ serial' = serial
                 /\ UNCHANGED state
            ELSE /\ current_image' = img
                 /\ display_image' = img
                 /\ predictor_image' = img
                 /\ last' = [NoCall EXCEPT !.op = "upload", !.outcome = "ok",
                                           !.file = u.file, !.alone = u.alone,
                                           !.pre = u.pre,
                                           !.image = Some(encode_image(Val(img)))]
                 /\ run' = IF quiet
                           THEN [valid |-> TRUE, adds |-> 0, undos |-> 0,
                                 base |-> Some(encode_image(Val(img))),
                                 allmask |-> TRUE, nomask |-> FALSE]
                           ELSE NoRun
                 /\ serial' = (quiet \/ serial)
                 /\ UNCHANGED << masks, points >>

\* -------------------------------------------------------------- /add_point
\* o_masks[0][0] as saved and composited (lines 135, 138)
AcceptedMask(o_masks) == o_masks[1]

\* if o_masks: masks.append(o_masks[0][0])
SavedMasksNoAppend(ms, o_masks) == ms
SavedMasks(ms, o_masks) ==
  IF o_masks # << >> THEN Append(ms, AcceptedMask(o_masks)) ELSE ms

\* o_masks[0][0] as returned (line 147)
ReturnedMaskLast(o_masks) ==
  IF o_masks # << >>
  THEN Some(encode_image(ScaledMask(o_masks[Len(o_masks)])))
  ELSE None
ReturnedMask(o_masks) ==
  IF o_masks # << >> THEN Some(encode_image(ScaledMask(o_masks[1]))) ELSE None

AddPointRun(r, completed) ==
  IF run.valid /\ run.undos = 0
  THEN [run EXCEPT !.adds = @ + 1,
                   !.allmask = @ /\ completed /\ r.o_masks # << >>,
                   !.nomask = @ \/ r.throws \/ r.o_masks = << >>]
  ELSE NoRun

\* history: the mask predict produced for the point appended by this call
MadeFor(r) ==
  IF r.throws \/ r.o_masks = << >> THEN None ELSE Some(r.o_masks[1])

\* display_image is its own buffer (img.copy(), overlay_mask's result,
\* current_image.copy()), so drawing markers on it in place leaves
\* current_image as it was
CurrentAliasedToDisplay(drawn) == Some(drawn)
CurrentAfterDraw(drawn) == current_image

AddPointCall(r, outcome, image, mask) ==
  [NoCall EXCEPT !.op = "add_point", !.outcome = outcome, !.image = image,
                 !.mask = mask, !.backend = r, !.alone = (reading = << >>),
                 !.pre = Snapshot]

add_point(pt, r) ==
  /\ Tick
  /\ Len(points) < MaxPoints
  /\ points' = Append(points, pt)
  /\ made' = Append(made, MadeFor(r))
  /\ reading' = Interleaved(reading)
  /\ serial' = (serial /\ reading = << >>)
  /\ UNCHANGED predictor_image
  /\ IF r.throws
     THEN \* predictor.predict raised: the point is already appended
          /\ UNCHANGED << masks, display_image, current_image >>
          /\ last' = AddPointCall(r, "uncaught", None, None)
          /\ run' = AddPointRun(r, FALSE)
     ELSE /\ masks' = SavedMasks(masks, r.o_masks)
          /\ IF display_image = None
             THEN \* overlay_mask / cv2.drawMarker on None raises
                  /\ UNCHANGED << display_image, current_image >>
                  /\ last' = AddPointCall(r, "uncaught", None, None)
                  /\ run' = AddPointRun(r, FALSE)
             ELSE LET composited ==
                        IF r.o_masks # << >>
                        THEN overlay_mask(Val(display_image), AcceptedMask(r.o_masks))
                        ELSE Val(display_image)
                      drawn == DrawAllPoints(composited, points')
                  IN  /\ display_image' = Some(drawn)
                      /\ current_image' = CurrentAfterDraw(drawn)
                      /\ last' = AddPointCall(r, "ok", Some(encode_image(drawn)),
                                              ReturnedMask(r.o_masks))
                      /\ run' = AddPointRun(r, TRUE)

\* ------------------------------------------------------------------ /undo
\* if masks: masks.pop()
PoppedMasks(ms) == IF ms # << >> THEN Front(ms) ELSE ms

\* the buffer undo rebuilds from: current_image.copy()
UndoBaseDisplay == display_image
UndoBase == current_image

\* lines 161-170: every mask overlaid in order, then every point's marker
Rebuild(base, ms, pts) == DrawAllPoints(RedrawAllMasks(base, ms), pts)

UndoRun == IF run.valid /\ run.undos < run.adds
           THEN [run EXCEPT !.undos = @ + 1]
           ELSE NoRun

\* history: when this undo directly follows an add_point and no upload was
\* suspended during either, the session as it was before that add_point
Undone ==
  IF last.op = "add_point" /\ last.alone /\ reading = << >>
  THEN Some(last.pre)
  ELSE None

UndoCall(outcome, image) ==
  [NoCall EXCEPT !.op = "undo", !.outcome = outcome, !.image = image,
                 !.alone = (reading = << >>), !.pre = Snapshot,
                 !.undone = Undone]

undo ==
  /\ Tick
  /\ reading' = Interleaved(reading)
  /\ serial' = (serial /\ reading = << >>)
  /\ run' = UndoRun
  /\ UNCHANGED << current_image, predictor_image >>
  /\ IF points # << >>
     THEN /\ points' = Front(points)
          /\ made' = Front(made)
          /\ masks' = PoppedMasks(masks)
          /\ IF UndoBase = None
             THEN \* current_image.copy() on None raises
                  /\ UNCHANGED display_image
                  /\ last' = UndoCall("uncaught", None)
             ELSE LET rebuilt == Rebuild(Val(UndoBase), masks', points')
                  IN  /\ display_image' = Some(rebuilt)
                      /\ last' = UndoCall("ok", Some(encode_image(rebuilt)))
     ELSE /\ UNCHANGED << points, masks, display_image, made >>
          /\ IF display_image = None
             THEN \* cv2.imencode on None raises
                  last' = UndoCall("uncaught", None)
             ELSE last' = UndoCall("ok", Some(encode_image(Val(display_image))))

\* ------------------------------------------------------------------- spec
Upload == \E f \in Files : UploadStart(f)
UploadDone == \E i \in 1..MaxInflight : UploadFinish(i)
AddPoint ==
  \E pt \in PointSet, r \in PredictOutcomes : add_point(pt, r)
Undo == undo

Next == Upload \/ UploadDone \/ AddPoint \/ Undo

Spec == Init /\ [][Next]_vars

\* ------------------------------------------- /spamcheck, /checkavalanchetype
\* file.content_type values: an image type and another type
ContentTypes == {"image/png", "text/plain"}
IsImageType(ct) == ct = "image/png"

\* Image.open(io.BytesIO(image_data)).convert("RGB"): None stands for raising
ImageOpen(f) == imdecode(f)

\* predict_spam / predict_avalanche_type return a class id (class 0 of
\* predict_spam is spam)
ClassIds == {0, 1}

\* the predictor's image after /spamcheck: the handler never calls set_image
PredictorSetWhenNotSpam(f, k) ==
  IF k = 0 THEN predictor_image ELSE ImageOpen(f)
PredictorAfterSpamcheck(f, k) == predictor_image

ClassifierCall(op, f, outcome, status, verdict) ==
  [NoCall EXCEPT !.op = op, !.outcome = outcome, !.file = f, !.status = status,
                 !.verdict = verdict, !.alone = (reading = << >>),
                 !.pre = Snapshot]

\* lines 60-80.  The handler reads and writes no session state except what
\* PredictorAfterSpamcheck says, so its await is not a separate step.
spam_classify_image(ct, f, k) ==
  /\ Tick
  /\ predictor_image' = (IF IsImageType(ct) /\ ImageOpen(f) # None
                         THEN PredictorAfterSpamcheck(f, k)
                         ELSE predictor_image)
  /\ last' = IF ~IsImageType(ct)
             THEN ClassifierCall("spamcheck", f, "error", 400, None)
             ELSE IF ImageOpen(f) = None
             THEN ClassifierCall("spamcheck", f, "error", 500, None)
             ELSE ClassifierCall("spamcheck", f, "ok", 200, Some(k = 0))
  /\ UNCHANGED << current_image, display_image, masks, points, reading, run,
                  serial, made >>

\* lines 83-99
classify_avalanche_type(f, k) ==
  /\ Tick
  /\ last' = IF ImageOpen(f) = None
             THEN ClassifierCall("checkavalanchetype", f, "error", 500, None)
             ELSE ClassifierCall("checkavalanchetype", f, "ok", 200, Some(k))
  /\ UNCHANGED << current_image, display_image, masks, points, predictor_image,
                  reading, run, serial, made >>

Spamcheck ==
  \E ct \in ContentTypes, f \in Files, k \in ClassIds :
    spam_classify_image(ct, f, k)
CheckAvalancheType ==
  \E f \in Files, k \in ClassIds : classify_avalanche_type(f, k)

NextService ==
  Upload \/ UploadDone \/ AddPoint \/ Undo \/ Spamcheck \/ CheckAvalancheType

SpecService == Init /\ [][NextService]_vars

\* ------------------------------------------------------ overlay_mask alone
\* images whose channels take every 8-bit value
OverlayImages ==
  {[p \in Pixels |-> << v, (v + 40 * p[1]) % 256, (255 - v + 90 * p[2]) % 256 >>] :
     v \in 0..ChannelMax}

MaskNone == [p \in Pixels |-> 0]
MaskAll == [p \in Pixels |-> ChannelMax]
OverlayMasks == {MaskNone, MaskLeft, MaskTop, MaskAll}

InitOverlay ==
  /\ InitSession
  /\ arg \in {Some([image |-> im, a |-> ma, b |-> mb]) :
               im \in OverlayImages, ma \in OverlayMasks, mb \in OverlayMasks}
  /\ out = None

\* overlay_mask applied to the inputs, in both orders
ApplyOverlay ==
  /\ arg # None
  /\ out = None
  /\ LET im == Val(arg).image
         ma == Val(arg).a
         mb == Val(arg).b
     IN  out' = Some([a |-> overlay_mask(im, ma),
                      input |-> InputAfterOverlay(im, ma),
                      ab |-> overlay_mask(overlay_mask(im, ma), mb),
                      ba |-> overlay_mask(overlay_mask(im, mb), ma)])
  /\ UNCHANGED << current_image, display_image, masks, points, predictor_image,
                  reading, last, run, serial, made, arg, steps >>

NextOverlay == ApplyOverlay

SpecOverlay == InitOverlay /\ [][NextOverlay]_vars

\* ----------------------------------------------------------------- claims
\* the requests so far ran one at a time and the last one returned a response
Sequential == serial /\ reading = << >>
Completed == last.op # "none" /\ last.outcome = "ok"

\* C1: after any completed sequence of upload, add_point and undo requests
\* (whatever the backend returned), len(points) = len(masks).
C1_LengthsEqual ==
  (Sequential /\ Completed) => Len(points) = Len(masks)

\* C2: N add_point calls after an upload followed by N undo calls leave
\* points = [], masks = [] and display_image equal to the image the upload
\* returned, whether or not every point got a mask.
C2_UndoAllRestoresUpload ==
  (run.valid /\ run.adds = run.undos) =>
    /\ points = << >>
    /\ masks = << >>
    /\ display_image # None
    /\ Some(encode_image(Val(display_image))) = run.base

C2_Witness ==
  run.valid /\ run.adds = 2 /\ run.undos = 2 /\ run.nomask

\* C3: after an upload, an add_point directly followed by an undo restores
\* points, masks and display_image to what they were before the add_point.
C3_AddThenUndoRestores ==
  (/\ last.op = "undo"
   /\ last.undone # None
   /\ Val(last.undone).current_image # None
   /\ Sequential) =>
    /\ points = Val(last.undone).points
    /\ masks = Val(last.undone).masks
    /\ display_image = Val(last.undone).display_image

\* C4: after every completed upload, add_point or undo, display_image is the
\* rebuild of (current_image, masks, points).
C4_DisplayIsRebuild ==
  (Sequential /\ Completed) =>
    /\ current_image # None
    /\ display_image = Some(Rebuild(Val(current_image), masks, points))

\* C5: an upload that ran with no other request interleaved ends with points
\* and masks empty, current_image, display_image and the predictor's image
\* equal to the decoded file, and returns that image, whatever came before.
C5_UploadResets ==
  (last.op = "upload" /\ last.outcome = "ok" /\ last.alone) =>
    /\ points = << >>
    /\ masks = << >>
    /\ imdecode(last.file) # None
    /\ current_image = imdecode(last.file)
    /\ display_image = imdecode(last.file)
    /\ predictor_image = imdecode(last.file)
    /\ last.image = Some(encode_image(Val(imdecode(last.file))))

C5_Witness ==
  /\ last.op = "upload" /\ last.outcome = "ok" /\ last.alone
  /\ last.pre.points # << >>
  /\ last.pre.masks # << >>
  /\ last.pre.display_image # last.pre.current_image

\* C6: undo with points empty changes nothing and returns the base image
\* (the image installed by the upload).
C6_UndoOnEmptyReturnsBase ==
  (/\ last.op = "undo"
   /\ last.pre.points = << >>
   /\ last.pre.current_image # None
   /\ Sequential) =>
    /\ state = << last.pre.current_image, last.pre.display_image,
                  last.pre.masks, last.pre.points, last.pre.predictor_image >>
    /\ last.outcome = "ok"
    /\ last.image = Some(encode_image(Val(current_image)))

\* C7: add_point before any upload ends in a BackendNotReady error and leaves
\* points and masks unchanged.
C7_AddPointBeforeUpload ==
  (/\ last.op = "add_point"
   /\ last.pre.current_image = None
   /\ last.pre.display_image = None) =>
    /\ last.outcome = "BackendNotReady"
    /\ points = last.pre.points
    /\ masks = last.pre.masks

\* C8: when the backend call inside add_point throws (with an image loaded),
\* points, masks and display_image are what they were before the request.
C8_BackendFailureKeepsState ==
  (/\ last.op = "add_point"
   /\ last.backend.throws
   /\ last.pre.current_image # None
   /\ Sequential) =>
    /\ points = last.pre.points
    /\ masks = last.pre.masks
    /\ display_image = last.pre.display_image

\* C9: after an upload, N add_point calls that each got at least one mask
\* (and no undo) give len(points) = len(masks) = N.
C9_LengthsCountAdds ==
  (run.valid /\ run.undos = 0 /\ run.allmask) =>
    /\ Len(points) = run.adds
    /\ Len(masks) = run.adds

C9_Witness ==
  run.valid /\ run.undos = 0 /\ run.allmask /\ run.adds = 2

\* C10: add_point returns a null mask exactly when the backend returned no
\* candidate; otherwise it returns the first candidate, which is the mask it
\* appended to masks and composited onto display_image.
C10_ReturnedMaskIsFirstCandidate ==
  (last.op = "add_point" /\ last.outcome = "ok") =>
    LET o_masks == last.backend.o_masks
    IN  /\ (last.mask = None) <=> (o_masks = << >>)
        /\ o_masks # << >> =>
             /\ last.mask = Some(encode_image(ScaledMask(o_masks[1])))
             /\ masks = Append(last.pre.masks, o_masks[1])
             /\ display_image =
                  Some(DrawAllPoints(
                         overlay_mask(Val(last.pre.display_image), o_masks[1]),
                         points))

C10_Witness ==
  /\ last.op = "add_point" /\ last.outcome = "ok"
  /\ Len(last.backend.o_masks) = 2
  /\ last.pre.masks # << >>

\* C15: when an add_point or undo was handled while an upload was suspended
\* at its file read, points and masks are empty once that upload completed.
C15_UploadSupersedes ==
  (/\ last.op = "upload" /\ last.outcome = "ok"
   /\ ~last.alone
   /\ last.pre.current_image # None) =>
    /\ points = << >>
    /\ masks = << >>

\* C16: for every index i of masks, masks[i] is the mask the backend produced
\* for the add_point call that appended points[i].
C16_MasksAlignedWithPoints ==
  (Sequential /\ Completed) =>
    \A i \in 1..Len(masks) :
      /\ i <= Len(made)
      /\ made[i] = Some(masks[i])

\* C17: add_point and undo leave current_image and the predictor's image as
\* they were, and current_image is the image last given to set_image.
C17_OnlyUploadSetsImage ==
  /\ current_image = predictor_image
  /\ last.op \in {"add_point", "undo"} =>
       /\ current_image = last.pre.current_image
       /\ predictor_image = last.pre.predictor_image

C17_Witness ==
  /\ last.op = "add_point" /\ last.outcome = "ok"
  /\ last.backend.o_masks = << >>
  /\ Len(points) = 2
  /\ display_image # current_image
  /\ current_image = Some(Photo)

\* C18: in every reachable state, under any interleaving, len(masks) <=
\* len(points); masks is empty whenever points is empty.
C18_MasksNoLongerThanPoints ==
  /\ Len(masks) <= Len(points)
  /\ points = << >> => masks = << >>

C18_Witness ==
  /\ ~serial
  /\ last.op = "upload" /\ last.outcome = "ok" /\ ~last.alone
  /\ masks # << >>
  /\ Len(masks) < Len(points)

\* C20: an upload that fails leaves points, masks, current_image,
\* display_image and the predictor's image as they were before the request.
C20_FailedUploadKeepsSession ==
  (/\ last.op = "upload" /\ last.outcome = "uncaught"
   /\ last.alone
   /\ serial
   /\ last.pre.current_image # None) =>
    state = << last.pre.current_image, last.pre.display_image,
               last.pre.masks, last.pre.points, last.pre.predictor_image >>

\* pixels where both masks are set
Overlap(ma, mb) == {p \in Pixels : ma[p] > 0 /\ mb[p] > 0}

\* C13 (as stated): for overlapping masks A and B, overlaying A then B
\* differs from overlaying B then A on the overlapping pixels.
C13_OverlayOrderSensitive ==
  (/\ out # None
   /\ Val(arg).a # Val(arg).b
   /\ Overlap(Val(arg).a, Val(arg).b) # {}) =>
    \A p \in Overlap(Val(arg).a, Val(arg).b) : Val(out).ab[p] # Val(out).ba[p]

\* C13 (amended): with the one fixed highlight colour, overlaying A then B
\* gives the same image as overlaying B then A, overlapping pixels included.
C13_OverlayOrderInsensitive ==
  out # None => Val(out).ab = Val(out).ba

C13_Witness ==
  /\ out # None
  /\ Val(arg).a = MaskLeft /\ Val(arg).b = MaskAll
  /\ \E p \in Overlap(Val(arg).a, Val(arg).b) :
       /\ Val(out).ab[p] # Val(arg).image[p]
       /\ Val(out).ab[p] # Val(out).a[p]

\* C14: overlay_mask with an all-zero mask returns an image equal to its
\* input, and overlay_mask never modifies its input buffer.
C14_ZeroMaskIsNoOp ==
  out # None =>
    /\ Val(out).input = Val(arg).image
    /\ Val(arg).a = MaskNone => Val(out).a = Val(arg).image

C14_Witness ==
  /\ out # None
  /\ Val(arg).a = MaskNone
  /\ Val(arg).image[<< 1, 1 >>][1] = ChannelMax
  /\ Val(out).a = Val(arg).image

\* C11 (as stated): a /spamcheck whose verdict is non-spam has given the
\* checked image to the segmentation backend.
C11_NonSpamInitializesBackend ==
  (last.op = "spamcheck" /\ last.outcome = "ok" /\ last.verdict = Some(FALSE)) =>
    predictor_image = ImageOpen(last.file)

\* C11 (amended): a /spamcheck request leaves the segmentation backend's
\* image, and the rest of the session, as they were, whatever its verdict.
C11_SpamcheckLeavesBackend ==
  last.op = "spamcheck" =>
    state = << last.pre.current_image, last.pre.display_image,
               last.pre.masks, last.pre.points, last.pre.predictor_image >>

C11_Witness ==
  /\ last.op = "spamcheck" /\ last.outcome = "ok"
  /\ last.verdict = Some(FALSE)
  /\ predictor_image = None

\* C12: every failure inside a handler is reported as a structured error
\* outcome, never as an uncaught exception.
C12_FailuresAreStructured ==
  last.outcome # "uncaught"

====
